---- MODULE Spec2Model ----
(***************************************************************************)
(* Model of fetch_historical_data.py: the pagination loop                  *)
(* (fetch_historical_data), the incremental expansion (expand_csv) and the *)
(* command-line entry point (__main__), and of the pagination function of  *)
(* the script variant fetch_KAG_USDT_1h.py (fetch_all_historical_data).    *)
(*                                                                         *)
(* Time.  Every instant is an integer number of milliseconds counted from  *)
(* a fixed origin that lies after 2001-09-09 (1e12 ms) on the epoch axis   *)
(* and on a day boundary.  A naive datetime is represented by the instant  *)
(* it would denote in UTC.                                                 *)
(* A DataFrame with a datetime index is a sequence of rows [ts, v, vol]:   *)
(* ts is the index (naive UTC, as produced by pd.to_datetime(unit='ms')),  *)
(* v stands for the open/high/low/close values and the size of the volume, *)
(* vol tells which quantity the 'volume' column holds.  Every candle       *)
(* handed out by the exchange carries a fresh v, so that two occurrences   *)
(* of one timestamp can always be told apart.                              *)
(* A file is a sequence of rows [date, v, base, quote]: the date column    *)
(* (the index column of the minimal layout), and the content of the        *)
(* base-asset and quote-asset volume columns ('volume' of the minimal      *)
(* layout is held in base, and quote is "").                               *)
(***************************************************************************)
EXTENDS Integers, Sequences, FiniteSets

VARIABLES
    pc,                 \* position of the process
    mode,               \* "full" (plain download), "expand" (--expand FILE) or
                        \* "call" (the pagination function called directly)
    script,             \* "generic" (fetch_historical_data.py) or "kag"
    tz,                 \* UTC offset of the local time zone, in ms
    now,                \* datetime.now(): the local clock, naive
    timeframe,          \* <<n, unit>> for the string n ++ unit ('1h' = <<1, "h">>)
    page_limit,         \* --page-limit
    end_arg,            \* the end date as given (--end / end_date=), or None
    polite,             \* the exchange answers a request with ascending pages
                        \* of candles at or after `since`, and fails finitely often
    steady,             \* the exchange is deterministic: it has one candle per
                        \* interval and answers with the first ones from `since`
    start_date,         \* naive datetime or None
    end_date,           \* naive datetime
    exists,             \* os.path.exists(csv_path)
    csv,                \* rows of the dataset file on disk
    layout,             \* "simple" or "cdd" (CryptoDataDownload: unix, date, ...)
    unix_unit,          \* unit of the 'unix' column of a cdd file: "s" or "ms"
    vol_first,          \* which 'Volume ' column of a cdd file comes first
    end_timestamp_ms,   \* local of fetch_historical_data
    current_since,      \* local of fetch_historical_data
    twin_since,         \* the cursor the other script's loop holds, given the
                        \* same arguments and the same answers
    all_data,           \* local of fetch_historical_data
    page_count,         \* local of fetch_historical_data
    result,             \* DataFrame returned by fetch_historical_data
    existing_ohlcv,     \* local of expand_csv (lines 217-222)
    error,              \* the exception that reached the caller, or ""
    requests,           \* history: the fetch_ohlcv calls of this run, in order
    responses,          \* history: the outcome of each call
    sleeps,             \* history: the time.sleep calls of this run
    serial,             \* history: number of candles the exchange handed out
    calls,              \* history: number of fetch_ohlcv calls of all runs
    written,            \* history: the DataFrame handed to the CSV writer
    csv0,               \* history: rows of the file before the run
    unix_unit0,         \* history: unix unit of the file before the run
    prev                \* history: the run before this one against a
                        \* deterministic exchange (NoRun if none)

vars == <<pc, mode, script, tz, now, timeframe, page_limit, end_arg, polite, steady,
          start_date, end_date, exists, csv, layout, unix_unit, vol_first,
          end_timestamp_ms, current_since, twin_since, all_data, page_count, result,
          existing_ohlcv, error, requests, responses, sleeps, serial, calls,
          written, csv0, unix_unit0, prev>>

(***************************************************************************)
(* Bounds of the model.                                                    *)
(***************************************************************************)
MaxTick == 2        \* the exchange has candles at 0, d, ..., MaxTick * d
MaxPageLen == 2     \* longest page the exchange returns
MaxRequests == 2    \* fetch_ohlcv calls of an arbitrary exchange, over all runs
MaxNetErrors == 1   \* network errors of a polite exchange per run
MaxSteadyTick == 4  \* a deterministic exchange has candles at 0, d, ..., MaxSteadyTick * d

(***************************************************************************)
(* Program constants.                                                      *)
(***************************************************************************)
None == -1          \* Python's None; never an instant (instants are multiples of 60000)
HourMs == 3600000   \* 60 * 60 * 1000
DayMs == 86400000   \* 24 * 60 * 60 * 1000
MinuteMs == 60000   \* 60 * 1000
RateLimit == 1200   \* 'rateLimit': 1200, slept as rateLimit / 1000 seconds
RetryDelayMs == 5000 \* time.sleep(5)

Timeframes == {<<1, "h">>, <<1, "d">>, <<5, "m">>, <<4, "h">>}
TzOffsets == {0 - HourMs, 0, HourMs}
PageLimits == {3}

(***************************************************************************)
(* Pure functions.                                                         *)
(***************************************************************************)
\* mutant: every timeframe counts as one hour
_timeframe_delta_ms_AlwaysHour(tf) == HourMs

\* _timeframe_delta_ms: one timeframe in milliseconds
_timeframe_delta_ms(tf) ==
    IF tf = <<1, "h">> THEN HourMs
    ELSE IF tf = <<1, "d">> THEN DayMs
    ELSE IF tf[2] = "m" THEN tf[1] * MinuteMs
    ELSE HourMs

\* datetime.timestamp() * 1000 of a naive datetime: the datetime is read as
\* local time, so the epoch instant is the naive value minus the UTC offset
timestamp_ms(naive, offset) == naive - offset

\* [candle for candle in ohlcv if candle[0] <= end_timestamp_ms]
FilterPage(ohlcv, end_ms) == SelectSeq(ohlcv, LAMBDA c : c.ts <= end_ms)

\* df[~df.index.duplicated(keep='first')]
\* mutant: the occurrence fetched last is kept
KeepFirst_KeepsLast(s) ==
    LET F[i \in 0..Len(s)] ==
            IF i = 0 THEN <<>>
            ELSE IF \E j \in (i + 1)..Len(s) : s[j].ts = s[i].ts
                 THEN F[i - 1]
                 ELSE Append(F[i - 1], s[i])
    IN  F[Len(s)]

KeepFirst(s) ==
    LET F[i \in 0..Len(s)] ==
            IF i = 0 THEN <<>>
            ELSE IF \E j \in 1..(i - 1) : s[j].ts = s[i].ts
                 THEN F[i - 1]
                 ELSE Append(F[i - 1], s[i])
    IN  F[Len(s)]

\* mutant: the merge keeps the first (existing) row of a duplicated index
KeepLast_KeepsFirst(s) == KeepFirst(s)

\* combined[~combined.index.duplicated(keep='last')]
KeepLast(s) ==
    LET F[i \in 0..Len(s)] ==
            IF i = 0 THEN <<>>
            ELSE IF \E j \in (i + 1)..Len(s) : s[j].ts = s[i].ts
                 THEN F[i - 1]
                 ELSE Append(F[i - 1], s[i])
    IN  F[Len(s)]

\* insertion of one row into a sorted frame, after the rows with an equal index
InsertRow(s, c) ==
    LET k == Cardinality({i \in 1..Len(s) : s[i].ts <= c.ts})
    IN  SubSeq(s, 1, k) \o <<c>> \o SubSeq(s, k + 1, Len(s))

\* mutant: the frame is left in arrival order
SortIndex_Unsorted(s) == s

\* df.sort_index(inplace=True)
SortIndex(s) ==
    LET F[i \in 0..Len(s)] ==
            IF i = 0 THEN <<>> ELSE InsertRow(F[i - 1], s[i])
    IN  F[Len(s)]

\* mutant: the final filter is missing
FinalFilter_Missing(df, end) == df

\* df[df.index <= end_date]
FinalFilter(df, end) == SelectSeq(df, LAMBDA c : c.ts <= end)

\* lines 105-120: the DataFrame built from all_data after the loop
BuildFrame(data, end) ==
    IF data = <<>> THEN <<>>
    ELSE FinalFilter(SortIndex(KeepFirst(data)), end)

\* existing_df.index.max() / existing_df['unix'].max() in ms
MaxTs(rows) == CHOOSE t \in {rows[i].ts : i \in 1..Len(rows)} :
                   \A i \in 1..Len(rows) : rows[i].ts <= t

\* lines 189-193: the last instant read from the 'unix' column.  A column in
\* seconds holds ts / 1000 and is below 1e12, so it is multiplied back by 1000;
\* a column in milliseconds is at least 1e12 and is taken as it is.
LastMsFromUnix(rows, unit) ==
    IF unit = "s" THEN (MaxTs(rows) \div 1000) * 1000 ELSE MaxTs(rows)

\* lines 187-198: the start_date expand_csv passes to fetch_historical_data
ExpandStartDate(rows, lay, unit, tf) ==
    IF lay = "cdd"
    THEN LastMsFromUnix(rows, unit) + _timeframe_delta_ms(tf)
    ELSE MaxTs(rows) + _timeframe_delta_ms(tf)

\* lines 224-226: concat, drop duplicates keeping the last, sort
\* mutant: the rewritten file holds the fetched rows only
Combine_NewOnly(existing, new) == SortIndex(KeepLast(new))

Combine(existing, new) == SortIndex(KeepLast(existing \o new))

\* mutant: the date column carries the day only
DateString_DayOnly(ts) == (ts \div DayMs) * DayMs

\* dt.strftime('%Y-%m-%d %H:%M:%S'), read back by pd.to_datetime: the
\* instant to the second
DateString(ts) == (ts \div 1000) * 1000

\* the index column as DataFrame.to_csv prints it and read_csv parses it:
\* pandas prints the fraction of a second when there is one
IndexString(ts) == ts

\* (close * volume).round(4): the derived content of the quote volume column
QuoteVolume(vol) == IF vol = "base" THEN "close*base" ELSE "close*other"

\* save_to_cryptodatadownload_format, lines 243-252
save_to_cryptodatadownload_format(df) ==
    [i \in 1..Len(df) |->
        [date |-> DateString(df[i].ts), v |-> df[i].v,
         base |-> df[i].vol, quote |-> QuoteVolume(df[i].vol)]]

\* DataFrame.to_csv of a frame with the columns open, high, low, close, volume
to_csv(df) ==
    [i \in 1..Len(df) |->
        [date |-> IndexString(df[i].ts), v |-> df[i].v,
         base |-> df[i].vol, quote |-> ""]]

\* _read_existing_csv with the normalisation of lines 217-222: the rows with
\* their datetime index and, as 'volume', the column vol_cols[0] (the first
\* column whose name starts with 'Volume ') of the extended layout, the
\* column 'volume' of the minimal layout
_read_existing_csv(file, lay, first) ==
    [i \in 1..Len(file) |->
        [ts |-> file[i].date, v |-> file[i].v,
         vol |-> IF lay = "cdd" /\ first = "quote"
                 THEN file[i].quote ELSE file[i].base]]

\* datetime.now().replace(minute=0, second=0, microsecond=0)
\* mutant: the current time is not truncated
TruncHour_NotTruncated(t) == t

TruncHour(t) == (t \div HourMs) * HourMs

\* fetch_KAG_USDT_1h.py, lines 133-142: the cursor arithmetic written inline
\* mutant: the branch for minute timeframes is missing
InlineNextSince_NoMinutes(last_timestamp, tf) ==
    IF tf = <<1, "h">> THEN last_timestamp + (60 * 60 * 1000)
    ELSE IF tf = <<1, "d">> THEN last_timestamp + (24 * 60 * 60 * 1000)
    ELSE last_timestamp + (60 * 60 * 1000)

InlineNextSince(last_timestamp, tf) ==
    IF tf = <<1, "h">> THEN last_timestamp + (60 * 60 * 1000)
    ELSE IF tf[2] = "m" THEN last_timestamp + (tf[1] * 60 * 1000)
    ELSE IF tf = <<1, "d">> THEN last_timestamp + (24 * 60 * 60 * 1000)
    ELSE last_timestamp + (60 * 60 * 1000)

(***************************************************************************)
(* Inputs.                                                                 *)
(***************************************************************************)
\* the instants at which the exchange has candles, for one timeframe
Instants(tf) == {k * _timeframe_delta_ms(tf) : k \in 0..MaxTick}

\* one row of an existing file
FileRow(t, lay, first) ==
    [date |-> t, v |-> 0, base |-> "base",
     quote |-> IF lay = "cdd" THEN "quote" ELSE ""]

\* the dataset files an expansion starts from: written by an earlier run or
\* downloaded, so sorted with one row per timestamp; the rows carry v = 0
ExistingFiles(tf) ==
    { <<[ts |-> 0, v |-> 0]>>,
      <<[ts |-> 0, v |-> 0], [ts |-> _timeframe_delta_ms(tf), v |-> 0]>> }

\* the same files as rows on disk in a layout
FilesOnDisk(tf, lay, first) ==
    { [i \in 1..Len(f) |-> FileRow(f[i].ts, lay, first)] : f \in ExistingFiles(tf) }

\* the pages the exchange may answer with: any non-empty run of its candles
\* in chronological order (lines 16-19: "oldest first"), of at most `limit`
\* candles; successive pages may overlap, repeat or go back in time
Pages(tf, limit) ==
    { p \in UNION { [1..n -> Instants(tf)] :
                      n \in 1..(IF limit < MaxPageLen THEN limit ELSE MaxPageLen) } :
        \A i \in 1..(Len(p) - 1) : p[i] < p[i + 1] }

\* the pages of a polite exchange: no candle before `since`
PolitePages(tf, limit, since) ==
    { p \in Pages(tf, limit) :
        \A i \in 1..Len(p) : since = None \/ p[i] >= since }

\* the candles of one page, each with a fresh v; the volume of fetch_ohlcv
\* is the base-asset volume
MakePage(instants, first) ==
    [i \in 1..Len(instants) |->
        [ts |-> instants[i], v |-> first + i, vol |-> "base"]]

\* the reading of the local clock: seven minutes into the hour after the
\* second candle
NowChoices(tf) == { _timeframe_delta_ms(tf) + HourMs + 7 * MinuteMs }

\* the requests a run of the loop may issue at most when the exchange is
\* polite: the cursor passes every instant once, then one more page, and the
\* retries
LiveCap == MaxTick + 2 + MaxNetErrors

\* the extended-layout files: as this program writes them (unix in ms, base
\* volume first) and as downloaded (unix in seconds, either volume first)
CddFiles == { <<"ms", "base">>, <<"s", "base">>, <<"s", "quote">> }

\* no run came before this one
NoRun == [runs |-> 0, aborted |-> FALSE, csv |-> <<>>, since |-> None]

\* the candles of a deterministic exchange
SteadyCandles(tf) == {k * _timeframe_delta_ms(tf) : k \in 0..MaxSteadyTick}

\* its answer to fetch_ohlcv(since, limit): the earliest candles at or after
\* `since`, oldest first, as many as the limit and its own page size allow
SteadyPage(tf, limit, since) ==
    LET S == {t \in SteadyCandles(tf) : since = None \/ t >= since}
        m == IF limit < MaxPageLen THEN limit ELSE MaxPageLen
        n == IF Cardinality(S) < m THEN Cardinality(S) ELSE m
    IN  [i \in 1..n |-> CHOOSE t \in S : Cardinality({u \in S : u < t}) = i - 1]

\* the requests one run may issue at most against a deterministic exchange:
\* one per page of its candles, one more, and the retries
SteadyCap == MaxSteadyTick + 2 + MaxNetErrors

\* the initial states against an exchange that is polite or not
InitWith(p) ==
    /\ pc = "main"
    /\ polite = p
    /\ mode \in {"full", "expand", "call"}
    /\ script \in (IF mode = "call" THEN {"generic", "kag"} ELSE {"generic"})
    /\ tz \in TzOffsets
    /\ timeframe \in Timeframes
    /\ page_limit \in PageLimits
    \* fetch_historical_data is called with an end date by __main__ and by
    \* expand_csv, so the direct call is followed without one
    /\ end_arg \in (IF mode = "call" /\ script = "generic" THEN {None}
                    ELSE {None} \cup {k * _timeframe_delta_ms(timeframe) :
                                         k \in 1..(MaxTick - 1)})
    /\ now \in NowChoices(timeframe)
    /\ end_date = end_arg
    /\ IF mode = "expand"
       THEN /\ start_date = None
            /\ exists \in BOOLEAN
            /\ layout \in (IF exists THEN {"simple", "cdd"} ELSE {"simple"})
            /\ \E f \in (IF layout = "cdd" THEN CddFiles ELSE {<<"ms", "base">>}) :
                   unix_unit = f[1] /\ vol_first = f[2]
            /\ csv \in (IF exists THEN FilesOnDisk(timeframe, layout, vol_first)
                        ELSE {<<>>})
       ELSE /\ start_date \in {None, _timeframe_delta_ms(timeframe)}
            /\ exists = TRUE
            /\ csv = <<FileRow(2 * _timeframe_delta_ms(timeframe), "simple", "base")>>
            /\ layout = "simple"
            /\ unix_unit = "ms"
            /\ vol_first = "base"
    /\ end_timestamp_ms = None
    /\ current_since = None
    /\ twin_since = None
    /\ all_data = <<>>
    /\ page_count = 0
    /\ result = <<>>
    /\ existing_ohlcv = <<>>
    /\ error = ""
    /\ requests = <<>>
    /\ responses = <<>>
    /\ sleeps = <<>>
    /\ serial = 0
    /\ calls = 0
    /\ written = <<>>
    /\ csv0 = csv
    /\ unix_unit0 = unix_unit
    /\ steady = FALSE
    /\ prev = NoRun

\* the exchange is arbitrary: whatever it answers, for MaxRequests calls
Init == InitWith(FALSE)

\* what no action but a restart changes
Env == <<script, tz, now, timeframe, page_limit, end_arg, polite, steady>>

(***************************************************************************)
(* fetch_historical_data, lines 29-53: set-up of the loop.                 *)
(***************************************************************************)
\* lines 34-36: the end date of a call without one
DefaultEnd(end) == IF end = None THEN TruncHour(now) - HourMs ELSE end

FetchPrologue(start, end) ==
    /\ end_date' = DefaultEnd(end)
    /\ end_timestamp_ms' = timestamp_ms(end_date', tz)
    /\ current_since' = IF start = None THEN None ELSE timestamp_ms(start, tz)
    /\ twin_since' = current_since'
    /\ all_data' = <<>>
    /\ page_count' = 0
    /\ pc' = "request"

\* __main__ without --expand, up to the first request; lines 331-332 set the
\* end date when --end is not given
MainBegin ==
    /\ pc = "main"
    /\ mode = "full"
    /\ FetchPrologue(start_date,
                     IF end_arg = None THEN TruncHour(now) ELSE end_arg)
    /\ UNCHANGED <<mode, start_date, exists, csv, layout, unix_unit, vol_first,
                   result, existing_ohlcv, error, requests, responses, sleeps,
                   serial, calls, written, csv0, unix_unit0,
                   prev>>
    /\ UNCHANGED Env

\* mutant: a missing file is taken for an empty dataset and created
ExpandMissing_CreatesFile ==
    /\ pc = "main"
    /\ mode = "expand"
    /\ ~exists
    /\ exists' = TRUE
    /\ pc' = "done"
    /\ UNCHANGED <<mode, start_date, end_date, csv, layout, unix_unit,
                   vol_first, end_timestamp_ms, current_since, twin_since, all_data,
                   page_count, result, existing_ohlcv, error, requests,
                   responses, sleeps, serial, calls, written, csv0, unix_unit0,
                   prev>>
    /\ UNCHANGED Env

\* expand_csv, lines 175-176: the file is missing
ExpandMissing ==
    /\ pc = "main"
    /\ mode = "expand"
    /\ ~exists
    /\ error' = "FileNotFoundError"
    /\ pc' = "raised"
    /\ UNCHANGED <<mode, start_date, end_date, exists, csv, layout, unix_unit,
                   vol_first, end_timestamp_ms, current_since, twin_since, all_data,
                   page_count, result, existing_ohlcv, requests, responses,
                   sleeps, serial, calls, written, csv0, unix_unit0,
                   prev>>
    /\ UNCHANGED Env

\* expand_csv, lines 178-211, up to the first request; lines 200-201 set the
\* end date when none is given
ExpandBegin ==
    /\ pc = "main"
    /\ mode = "expand"
    /\ exists
    /\ start_date' = ExpandStartDate(_read_existing_csv(csv, layout, vol_first),
                                     layout, unix_unit, timeframe)
    /\ FetchPrologue(start_date',
                     IF end_arg = None THEN TruncHour(now) ELSE end_arg)
    /\ UNCHANGED <<mode, exists, csv, layout, unix_unit, vol_first, result,
                   existing_ohlcv, error, requests, responses, sleeps, serial,
                   calls, written, csv0, unix_unit0,
                   prev>>
    /\ UNCHANGED Env

\* a direct call of fetch_historical_data(start_date, end_date)
CallBegin ==
    /\ pc = "main"
    /\ mode = "call"
    /\ script = "generic"
    /\ FetchPrologue(start_date, end_arg)
    /\ UNCHANGED <<mode, start_date, exists, csv, layout, unix_unit, vol_first,
                   result, existing_ohlcv, error, requests, responses, sleeps,
                   serial, calls, written, csv0, unix_unit0,
                   prev>>
    /\ UNCHANGED Env

\* a direct call of fetch_all_historical_data of fetch_KAG_USDT_1h.py with an
\* end date (lines 72-97 of that file)
KagCallBegin ==
    /\ pc = "main"
    /\ mode = "call"
    /\ script = "kag"
    /\ end_arg # None
    /\ FetchPrologue(start_date, end_arg)
    /\ UNCHANGED <<mode, start_date, exists, csv, layout, unix_unit, vol_first,
                   result, existing_ohlcv, error, requests, responses, sleeps,
                   serial, calls, written, csv0, unix_unit0,
                   prev>>
    /\ UNCHANGED Env

\* the same call without an end date: line 79 of fetch_KAG_USDT_1h.py reads
\* the attribute `timedelta` of a datetime object, which has none
KagCallNoEnd ==
    /\ pc = "main"
    /\ mode = "call"
    /\ script = "kag"
    /\ end_arg = None
    /\ error' = "AttributeError"
    /\ pc' = "raised"
    /\ UNCHANGED <<mode, start_date, end_date, exists, csv, layout, unix_unit,
                   vol_first, end_timestamp_ms, current_since, twin_since, all_data,
                   page_count, result, existing_ohlcv, requests, responses,
                   sleeps, serial, calls, written, csv0, unix_unit0,
                   prev>>
    /\ UNCHANGED Env

(***************************************************************************)
(* fetch_historical_data, lines 55-103: one pass of the loop per action.   *)
(***************************************************************************)
\* the exchange still answers: an arbitrary exchange is followed for
\* MaxRequests calls, a polite one for as long as the loop asks
MayCall ==
    IF steady THEN Len(requests) < SteadyCap
    ELSE IF polite THEN Len(requests) < LiveCap ELSE calls < MaxRequests

\* the pages the exchange may answer the next request with
Answers ==
    IF steady THEN {SteadyPage(timeframe, page_limit, current_since)} \ {<<>>}
    ELSE IF polite THEN PolitePages(timeframe, page_limit, current_since)
    ELSE Pages(timeframe, page_limit)

\* lines 57-59: the call exchange.fetch_ohlcv(since=current_since, limit=page_limit)
Issue(kind, ohlcv) ==
    /\ pc = "request"
    /\ MayCall
    /\ page_count' = page_count + 1
    /\ requests' = Append(requests, [since |-> current_since, limit |-> page_limit])
    /\ responses' = Append(responses, [kind |-> kind, ohlcv |-> ohlcv])
    /\ serial' = serial + Len(ohlcv)
    /\ calls' = calls + 1

\* lines 71-76: the candles not beyond the end are accumulated
Accumulate(ohlcv) ==
    all_data' = all_data \o FilterPage(ohlcv, end_timestamp_ms)

\* line 90, and lines 133-142 of fetch_KAG_USDT_1h.py
NextSince(last_timestamp) ==
    IF script = "kag" THEN InlineNextSince(last_timestamp, timeframe)
    ELSE last_timestamp + _timeframe_delta_ms(timeframe)

\* the same step in the loop of the other script: lines 133-142 of
\* fetch_KAG_USDT_1h.py for line 90, and line 90 for them
TwinNextSince(last_timestamp) ==
    IF script = "kag" THEN last_timestamp + _timeframe_delta_ms(timeframe)
    ELSE InlineNextSince(last_timestamp, timeframe)

Frame == <<mode, start_date, end_date, exists, csv, layout, unix_unit,
           vol_first, end_timestamp_ms, result, existing_ohlcv, error, written,
           csv0, unix_unit0, prev, script, tz, now, timeframe, page_limit,
           end_arg, polite, steady>>

\* the exchange may answer with no candles: a deterministic one does so only
\* when it has none at or after the cursor
MayBeEmpty ==
    steady => SteadyPage(timeframe, page_limit, current_since) = <<>>

\* lines 61-63: empty response
PageEmpty ==
    /\ MayBeEmpty
    /\ Issue("page", <<>>)
    /\ pc' = "finalize"
    /\ UNCHANGED <<current_since, twin_since, all_data, sleeps>>
    /\ UNCHANGED Frame

\* lines 78-81: fewer than page_limit - 1 candles
PageShort ==
    \E instants \in Answers :
        LET ohlcv == MakePage(instants, serial) IN
        /\ Len(ohlcv) < page_limit - 1
        /\ Issue("page", ohlcv)
        /\ Accumulate(ohlcv)
        /\ pc' = "finalize"
        /\ UNCHANGED <<current_since, twin_since, sleeps>>
        /\ UNCHANGED Frame

\* lines 83-86: the last candle is at or beyond the end
PageReachedEnd ==
    \E instants \in Answers :
        LET ohlcv == MakePage(instants, serial) IN
        /\ ~(Len(ohlcv) < page_limit - 1)
        /\ ohlcv[Len(ohlcv)].ts >= end_timestamp_ms
        /\ Issue("page", ohlcv)
        /\ Accumulate(ohlcv)
        /\ pc' = "finalize"
        /\ UNCHANGED <<current_since, twin_since, sleeps>>
        /\ UNCHANGED Frame

\* mutant: every continuing page is appended to the file at once
PageContinue_Checkpoints ==
    \E instants \in Answers :
        LET ohlcv == MakePage(instants, serial) IN
        /\ ~(Len(ohlcv) < page_limit - 1)
        /\ ~(ohlcv[Len(ohlcv)].ts >= end_timestamp_ms)
        /\ Issue("page", ohlcv)
        /\ Accumulate(ohlcv)
        /\ current_since' = NextSince(ohlcv[Len(ohlcv)].ts)
        /\ twin_since' = TwinNextSince(ohlcv[Len(ohlcv)].ts)
        /\ pc' = "rate_sleep"
        /\ csv' = csv \o to_csv(FilterPage(ohlcv, end_timestamp_ms))
        /\ UNCHANGED <<mode, start_date, end_date, exists, layout, unix_unit,
                       vol_first, end_timestamp_ms, result, existing_ohlcv,
                       error, written, csv0, unix_unit0, prev,
                       sleeps>>
        /\ UNCHANGED Env

\* mutant: a continuing page leaves the cursor where it was
PageContinue_CursorStays ==
    \E instants \in Answers :
        LET ohlcv == MakePage(instants, serial) IN
        /\ ~(Len(ohlcv) < page_limit - 1)
        /\ ~(ohlcv[Len(ohlcv)].ts >= end_timestamp_ms)
        /\ Issue("page", ohlcv)
        /\ Accumulate(ohlcv)
        /\ current_since' = current_since
        /\ twin_since' = twin_since
        /\ pc' = "rate_sleep"
        /\ UNCHANGED sleeps
        /\ UNCHANGED Frame

\* lines 88-93: the cursor advances, then the rate-limit sleep
PageContinue ==
    \E instants \in Answers :
        LET ohlcv == MakePage(instants, serial) IN
        /\ ~(Len(ohlcv) < page_limit - 1)
        /\ ~(ohlcv[Len(ohlcv)].ts >= end_timestamp_ms)
        /\ Issue("page", ohlcv)
        /\ Accumulate(ohlcv)
        /\ current_since' = NextSince(ohlcv[Len(ohlcv)].ts)
        /\ twin_since' = TwinNextSince(ohlcv[Len(ohlcv)].ts)
        /\ pc' = "rate_sleep"
        /\ UNCHANGED sleeps
        /\ UNCHANGED Frame

\* line 93: time.sleep(exchange.rateLimit / 1000), back to the loop head
RateSleep ==
    /\ pc = "rate_sleep"
    /\ sleeps' = Append(sleeps, [after |-> Len(requests), ms |-> RateLimit])
    /\ pc' = "request"
    /\ UNCHANGED <<current_since, twin_since, all_data, page_count, requests, responses,
                   serial, calls>>
    /\ UNCHANGED Frame

\* a polite exchange has not yet failed MaxNetErrors times in this run
MayFail ==
    (polite \/ steady) =>
        Cardinality({i \in 1..Len(responses) : responses[i].kind = "neterr"})
            < MaxNetErrors

\* mutant: a failed attempt moves the cursor on by one timeframe
PageNetworkError_SkipsPage ==
    /\ MayFail
    /\ Issue("neterr", <<>>)
    /\ pc' = "retry_sleep"
    /\ current_since' = IF current_since = None THEN None
                        ELSE current_since + _timeframe_delta_ms(timeframe)
    /\ twin_since' = current_since'
    /\ UNCHANGED <<all_data, sleeps>>
    /\ UNCHANGED Frame

\* lines 95-97: fetch_ohlcv raises ccxt.NetworkError
PageNetworkError ==
    /\ MayFail
    /\ Issue("neterr", <<>>)
    /\ pc' = "retry_sleep"
    /\ UNCHANGED <<current_since, twin_since, all_data, sleeps>>
    /\ UNCHANGED Frame

\* mutant: the retry goes out at once
RetrySleep_NoDelay ==
    /\ pc = "retry_sleep"
    /\ pc' = "request"
    /\ UNCHANGED <<current_since, twin_since, all_data, page_count, requests, responses,
                   serial, calls, sleeps>>
    /\ UNCHANGED Frame

\* lines 98-99: time.sleep(5); continue
RetrySleep ==
    /\ pc = "retry_sleep"
    /\ sleeps' = Append(sleeps, [after |-> Len(requests), ms |-> RetryDelayMs])
    /\ pc' = "request"
    /\ UNCHANGED <<current_since, twin_since, all_data, page_count, requests, responses,
                   serial, calls>>
    /\ UNCHANGED Frame

\* mutant: the abort throws away what was accumulated
PageOtherError_DropsData ==
    /\ Issue("err", <<>>)
    /\ pc' = "finalize"
    /\ all_data' = <<>>
    /\ UNCHANGED <<current_since, twin_since, sleeps>>
    /\ UNCHANGED Frame

\* lines 100-103: fetch_ohlcv raises any other exception
PageOtherError ==
    /\ Issue("err", <<>>)
    /\ pc' = "finalize"
    /\ UNCHANGED <<current_since, twin_since, all_data, sleeps>>
    /\ UNCHANGED Frame

\* lines 105-128: build, deduplicate, sort, truncate and return the DataFrame
Finalize ==
    /\ pc = "finalize"
    /\ result' = BuildFrame(all_data, end_date)
    /\ pc' = "returned"
    /\ UNCHANGED <<mode, start_date, end_date, exists, csv, layout, unix_unit,
                   vol_first, end_timestamp_ms, current_since, twin_since, all_data,
                   page_count, existing_ohlcv, error, requests, responses,
                   sleeps, serial, calls, written, csv0, unix_unit0,
                   prev>>
    /\ UNCHANGED Env

(***************************************************************************)
(* The callers, after fetch_historical_data has returned.                  *)
(***************************************************************************)
Locals == <<mode, start_date, end_date, exists, end_timestamp_ms,
            current_since, twin_since, all_data, page_count, result, error, requests,
            responses, sleeps, serial, calls, csv0, unix_unit0, prev, script,
            tz, now, timeframe, page_limit, end_arg, polite, steady>>

\* mutant: the early return is missing, the file is merged and rewritten
ExpandNoNew_Rewrites ==
    /\ pc = "returned"
    /\ mode = "expand"
    /\ result = <<>>
    /\ existing_ohlcv' = _read_existing_csv(csv, layout, vol_first)
    /\ written' = SortIndex(KeepLast(existing_ohlcv' \o result))
    /\ csv' = IF layout = "cdd"
              THEN save_to_cryptodatadownload_format(written')
              ELSE to_csv(written')
    /\ unix_unit' = IF layout = "cdd" THEN "ms" ELSE unix_unit
    /\ vol_first' = "base"
    /\ pc' = "done"
    /\ UNCHANGED layout
    /\ UNCHANGED Locals

\* expand_csv, lines 213-215: nothing new, the file is left alone
ExpandNoNew ==
    /\ pc = "returned"
    /\ mode = "expand"
    /\ result = <<>>
    /\ pc' = "done"
    /\ UNCHANGED <<csv, layout, unix_unit, vol_first, existing_ohlcv, written>>
    /\ UNCHANGED Locals

\* mutant: the merge is always written in the minimal layout
ExpandMerge_AlwaysSimple ==
    /\ pc = "returned"
    /\ mode = "expand"
    /\ result # <<>>
    /\ existing_ohlcv' = _read_existing_csv(csv, layout, vol_first)
    /\ written' = Combine(existing_ohlcv', result)
    /\ csv' = to_csv(written')
    /\ layout' = "simple"
    /\ vol_first' = "base"
    /\ pc' = "done"
    /\ UNCHANGED unix_unit
    /\ UNCHANGED Locals

\* expand_csv, lines 217-235: merge and write back in the layout read; the
\* extended layout is written with 'unix' in milliseconds (line 245) and
\* the base volume column first (line 251)
ExpandMerge ==
    /\ pc = "returned"
    /\ mode = "expand"
    /\ result # <<>>
    /\ existing_ohlcv' = _read_existing_csv(csv, layout, vol_first)
    /\ written' = Combine(existing_ohlcv', result)
    /\ csv' = IF layout = "cdd"
              THEN save_to_cryptodatadownload_format(written')
              ELSE to_csv(written')
    /\ unix_unit' = IF layout = "cdd" THEN "ms" ELSE unix_unit
    /\ vol_first' = "base"
    /\ pc' = "done"
    /\ UNCHANGED layout
    /\ UNCHANGED Locals

\* __main__, lines 346-357: the download is written in the minimal layout
MainSave ==
    /\ pc = "returned"
    /\ mode = "full"
    /\ result # <<>>
    /\ written' = result
    /\ csv' = to_csv(written')
    /\ layout' = "simple"
    /\ vol_first' = "base"
    /\ pc' = "done"
    /\ UNCHANGED <<unix_unit, existing_ohlcv>>
    /\ UNCHANGED Locals

\* __main__, lines 358-359: nothing downloaded, nothing written
MainNoData ==
    /\ pc = "returned"
    /\ mode = "full"
    /\ result = <<>>
    /\ pc' = "done"
    /\ UNCHANGED <<csv, layout, unix_unit, vol_first, existing_ohlcv, written>>
    /\ UNCHANGED Locals

\* the script is started again with --expand on the file the last run wrote
\* (after a run that wrote nothing the file is the one that run started from)
Rerun ==
    /\ pc = "done"
    /\ written # <<>>
    /\ IF steady THEN prev.runs = 0 ELSE calls < MaxRequests
    /\ pc' = "main"
    /\ mode' = "expand"
    /\ start_date' = None
    /\ end_date' = end_arg
    /\ end_timestamp_ms' = None
    /\ current_since' = None
    /\ twin_since' = None
    /\ all_data' = <<>>
    /\ page_count' = 0
    /\ result' = <<>>
    /\ existing_ohlcv' = <<>>
    /\ requests' = <<>>
    /\ responses' = <<>>
    /\ sleeps' = <<>>
    /\ written' = <<>>
    /\ csv0' = csv
    /\ unix_unit0' = unix_unit
    \* history of the run that ends, kept where the next run is compared
    \* with it
    /\ prev' = IF steady
               THEN [runs |-> prev.runs + 1,
                     aborted |-> responses[Len(responses)].kind = "err",
                     csv |-> csv0,
                     since |-> requests[1].since]
               ELSE prev
    /\ UNCHANGED <<exists, csv, layout, unix_unit, vol_first, error, serial, calls>>
    /\ UNCHANGED Env

Next ==
    \/ MainBegin
    \/ ExpandMissing
    \/ ExpandBegin
    \/ CallBegin
    \/ KagCallBegin
    \/ KagCallNoEnd
    \/ PageEmpty
    \/ PageShort
    \/ PageReachedEnd
    \/ PageContinue
    \/ RateSleep
    \/ PageNetworkError
    \/ RetrySleep
    \/ PageOtherError
    \/ Finalize
    \/ ExpandNoNew
    \/ ExpandMerge
    \/ MainSave
    \/ MainNoData
    \/ Rerun

Spec == Init /\ [][Next]_vars

\* the exchange is polite and the program keeps running: a sequential
\* process takes its next step, and every call of fetch_ohlcv comes back
LiveInit == InitWith(TRUE)

LiveSpec == LiveInit /\ [][Next]_vars /\ WF_vars(Next)

\* an expansion of an existing file against a deterministic exchange, up to
\* an end date the exchange's candles reach
ResumeInit ==
    /\ pc = "main"
    /\ polite = FALSE
    /\ steady = TRUE
    /\ mode = "expand"
    /\ script = "generic"
    /\ tz \in TzOffsets
    /\ timeframe \in Timeframes
    /\ page_limit \in PageLimits
    /\ end_arg \in {k * _timeframe_delta_ms(timeframe) :
                       k \in (MaxSteadyTick - 1)..MaxSteadyTick}
    /\ now \in NowChoices(timeframe)
    /\ end_date = end_arg
    /\ start_date = None
    /\ exists = TRUE
    /\ layout \in {"simple", "cdd"}
    /\ \E f \in (IF layout = "cdd" THEN CddFiles ELSE {<<"ms", "base">>}) :
           unix_unit = f[1] /\ vol_first = f[2]
    /\ csv \in FilesOnDisk(timeframe, layout, vol_first)
    /\ end_timestamp_ms = None
    /\ current_since = None
    /\ twin_since = None
    /\ all_data = <<>>
    /\ page_count = 0
    /\ result = <<>>
    /\ existing_ohlcv = <<>>
    /\ error = ""
    /\ requests = <<>>
    /\ responses = <<>>
    /\ sleeps = <<>>
    /\ serial = 0
    /\ calls = 0
    /\ written = <<>>
    /\ csv0 = csv
    /\ unix_unit0 = unix_unit
    /\ prev = NoRun

\* expand_csv run once and, after a run that wrote the file, once more
ResumeNext ==
    \/ ExpandBegin
    \/ PageEmpty
    \/ PageShort
    \/ PageReachedEnd
    \/ PageContinue
    \/ RateSleep
    \/ PageNetworkError
    \/ RetrySleep
    \/ PageOtherError
    \/ Finalize
    \/ ExpandNoNew
    \/ ExpandMerge
    \/ Rerun

ResumeSpec == ResumeInit /\ [][ResumeNext]_vars

\* lines 55-93 run to the end against a deterministic exchange that raises
\* nothing: the candles accumulated from cursor `since` on
RECURSIVE SteadyRun(_, _, _)
SteadyRun(since, data, fuel) ==
    LET ohlcv == MakePage(SteadyPage(timeframe, page_limit, since), 0) IN
    IF fuel = 0 \/ ohlcv = <<>> THEN data
    ELSE LET last_timestamp == ohlcv[Len(ohlcv)].ts
             acc == data \o FilterPage(ohlcv, end_timestamp_ms)
         IN  IF Len(ohlcv) < page_limit - 1 \/ last_timestamp >= end_timestamp_ms
             THEN acc
             ELSE SteadyRun(NextSince(last_timestamp), acc, fuel - 1)

(***************************************************************************)
(* Properties.                                                             *)
(***************************************************************************)
TsSet(s) == {s[i].ts : i \in 1..Len(s)}

\* the dataset a file holds, as _read_existing_csv returns it
Dataset(file) == _read_existing_csv(file, layout, "base")

StrictlyIncreasing(s) == \A i \in 1..(Len(s) - 1) : s[i].ts < s[i + 1].ts

\* fetch_historical_data has returned its DataFrame
Returned == pc \in {"returned", "done"}

\* the candles of the pages received so far, in the order received
RECURSIVE Received(_)
Received(n) ==
    IF n = 0 THEN <<>> ELSE Received(n - 1) \o responses[n].ohlcv

\* C1: every candle in the result of fetch_historical_data has a timestamp
\* less than or equal to the end boundary, both as the epoch instant the loop
\* compares with (end_timestamp_ms) and as the datetime passed in (end_date).
C1_NoCandleBeyondEnd ==
    Returned =>
        \A i \in 1..Len(result) :
            /\ result[i].ts <= end_timestamp_ms
            /\ result[i].ts <= end_date

\* a run that returned candles although the loop had accumulated a candle
\* past end_date
C1_Witness ==
    /\ Returned
    /\ result # <<>>
    /\ \E t \in TsSet(all_data) : t > end_date

\* C2: the sequence returned by fetch_historical_data is strictly increasing
\* by timestamp, whatever the pages were.
C2_StrictlyIncreasing == Returned => StrictlyIncreasing(result)

\* a run whose accumulated candles were out of order and repeated a timestamp
C2_Witness ==
    /\ Returned
    /\ Len(result) >= 2
    /\ ~StrictlyIncreasing(all_data)
    /\ Cardinality(TsSet(all_data)) < Len(all_data)
    /\ \E i \in 1..(Len(all_data) - 1) : all_data[i].ts > all_data[i + 1].ts

\* C3: after the merge of expand_csv the dataset holds exactly one row per
\* timestamp of the existing and the fetched rows, and every timestamp that
\* is in both carries the values of the fetched candle.
C3_MergeLastWriteWins ==
    (pc = "done" /\ mode = "expand" /\ result # <<>>) =>
        /\ Cardinality(TsSet(Dataset(csv))) = Len(csv)
        /\ TsSet(Dataset(csv)) = TsSet(Dataset(csv0)) \cup TsSet(result)
        /\ \A i \in 1..Len(result) :
               result[i].ts \in TsSet(Dataset(csv0)) =>
                   \E j \in 1..Len(csv) : Dataset(csv)[j] = result[i]

\* a merge in which a fetched candle replaced an existing row
C3_Witness ==
    /\ pc = "done"
    /\ mode = "expand"
    /\ \E i \in 1..Len(result) : result[i].ts \in TsSet(Dataset(csv0))
    /\ \E j \in 1..Len(csv) : csv[j].v = 0

\* the last candle of the i-th response
LastTs(i) == responses[i].ohlcv[Len(responses[i].ohlcv)].ts

\* the loop is still running
Paginating == pc \in {"request", "rate_sleep", "retry_sleep"}

\* C4: in expand_csv the since-cursor of the first request equals the maximum
\* timestamp of the existing file plus exactly one timeframe interval.
C4_CursorIsMaxPlusInterval ==
    (mode = "expand" /\ Len(requests) >= 1) =>
        requests[1].since = MaxTs(Dataset(csv0)) + _timeframe_delta_ms(timeframe)

\* C5: a network error leaves the cursor and the accumulated candles as they
\* were, the loop sleeps and then issues the same request (same since, same
\* limit) again.
C5_RetrySamePage ==
    [][ /\ (pc = "request" /\ pc' = "retry_sleep") =>
               /\ current_since' = current_since
               /\ all_data' = all_data
        /\ pc = "retry_sleep" =>
               /\ pc' = "request"
               /\ current_since' = current_since
               /\ all_data' = all_data
        /\ (/\ Len(requests') = Len(requests) + 1
            /\ Len(requests) >= 1
            /\ responses[Len(responses)].kind = "neterr") =>
               requests'[Len(requests')] = requests[Len(requests)]
      ]_vars

\* a page was accumulated after a retry of a request with a cursor
C5_Witness ==
    /\ Len(requests) = 2
    /\ responses[1].kind = "neterr"
    /\ requests[1].since # None
    /\ responses[2].kind = "page"
    /\ all_data # <<>>

\* C6: an exception that is not a network error ends the loop, no further
\* request is issued, and fetch_historical_data returns the candles of the
\* pages received before it: those not beyond the end, one row per timestamp
\* (the first received), in ascending order.
C6_AbortReturnsPartial ==
    \A i \in 1..Len(responses) :
        responses[i].kind = "err" =>
            /\ i = Len(requests)
            /\ ~Paginating
            /\ Returned =>
                   /\ StrictlyIncreasing(result)
                   /\ TsSet(result) =
                          {t \in TsSet(Received(i - 1)) :
                               t <= end_timestamp_ms /\ t <= end_date}
                   /\ \A k \in 1..Len(result) :
                          \E j \in 1..Len(Received(i - 1)) :
                              /\ Received(i - 1)[j] = result[k]
                              /\ \A h \in 1..(j - 1) :
                                     Received(i - 1)[h].ts # result[k].ts

\* an abort after a page with a repeated timestamp; its candles are returned
C6_Witness ==
    /\ Returned
    /\ Len(responses) = 2
    /\ responses[2].kind = "err"
    /\ result # <<>>
    /\ Len(all_data) > Len(result)

\* C7: a page of fewer than page_limit - 1 candles ends the loop with no
\* further request, and its candles not beyond the end boundary of the loop
\* are in the output.
C7_ShortPageStops ==
    \A i \in 1..Len(responses) :
        (/\ responses[i].kind = "page"
         /\ Len(responses[i].ohlcv) >= 1
         /\ Len(responses[i].ohlcv) < page_limit - 1) =>
            /\ i = Len(requests)
            /\ ~Paginating
            /\ Returned =>
                   \A k \in 1..Len(responses[i].ohlcv) :
                       responses[i].ohlcv[k].ts <= end_timestamp_ms =>
                           responses[i].ohlcv[k].ts \in TsSet(result)

\* the interval C8 names for a timeframe string
C8_Interval(tf) ==
    IF tf = <<1, "h">> THEN 3600000
    ELSE IF tf = <<1, "d">> THEN 86400000
    ELSE tf[1] * 60000

\* C8: after a non-empty page of at least page_limit - 1 candles the loop
\* stops without a further request if the last candle is at or past the end;
\* otherwise the cursor of the next request is the last timestamp plus
\* 3600000 ms for '1h', 86400000 ms for '1d', N * 60000 ms for 'Nm'.
C8_StopOrAdvance ==
    \A i \in 1..Len(responses) :
        (/\ responses[i].kind = "page"
         /\ Len(responses[i].ohlcv) >= 1
         /\ Len(responses[i].ohlcv) >= page_limit - 1) =>
            IF LastTs(i) >= end_timestamp_ms
            THEN i = Len(requests) /\ ~Paginating
            ELSE (timeframe = <<1, "h">> \/ timeframe = <<1, "d">> \/ timeframe[2] = "m") =>
                    /\ i = Len(requests) =>
                           /\ Paginating
                           /\ current_since = LastTs(i) + C8_Interval(timeframe)
                    /\ i < Len(requests) =>
                           requests[i + 1].since = LastTs(i) + C8_Interval(timeframe)

\* a second request went out after a full page, for a timeframe in minutes
C8_Witness ==
    /\ Len(requests) = 2
    /\ responses[1].kind = "page"
    /\ timeframe[2] = "m"
    /\ requests[2].since = LastTs(1) + 300000

\* C9: if the pagination of an expansion yields no new rows, the file is
\* what it was before the call.
C9_NoNewRowsNoWrite ==
    (pc = "done" /\ mode = "expand" /\ result = <<>>) =>
        /\ csv = csv0
        /\ unix_unit = unix_unit0

\* an expansion of an extended-layout file in seconds that fetched nothing new
C9_Witness ==
    /\ pc = "done"
    /\ mode = "expand"
    /\ result = <<>>
    /\ Len(requests) >= 1
    /\ layout = "cdd"
    /\ unix_unit0 = "s"

\* C10: the file is written only after the loop has ended: until then it
\* holds its content of before the run, and afterwards either that content
\* or the complete dataset, sorted with one row per timestamp.
C10_WriteOnlyAfterLoop ==
    /\ pc # "done" => (csv = csv0 /\ unix_unit = unix_unit0)
    /\ \/ csv = csv0 /\ unix_unit = unix_unit0
       \/ /\ StrictlyIncreasing(Dataset(csv))
          /\ TsSet(Dataset(csv)) = IF mode = "expand"
                                   THEN TsSet(Dataset(csv0)) \cup TsSet(result)
                                   ELSE TsSet(result)

\* a retry is pending while candles of an earlier page are accumulated
C10_Witness ==
    /\ pc = "retry_sleep"
    /\ all_data # <<>>
    /\ csv = csv0

\* C11: expand_csv on a path without a file fails with a file-not-found
\* error that reaches the caller: no request is issued, no file is created
\* or written, and nothing follows the failure.
C11_MissingFileFails ==
    [][ /\ (pc = "main" /\ mode = "expand" /\ ~exists) =>
               /\ pc' = "raised"
               /\ error' = "FileNotFoundError"
               /\ ~exists'
               /\ csv' = csv
               /\ requests' = requests
               /\ calls' = calls
        /\ (pc = "raised" /\ error = "FileNotFoundError") => UNCHANGED vars
      ]_vars

\* the failure has been reported
C11_Witness ==
    /\ pc = "raised"
    /\ error = "FileNotFoundError"
    /\ mode = "expand"
    /\ ~exists
    /\ calls = 0

\* a file is in the extended layout when its rows carry the quote-volume
\* column, and in the simple layout when they do not
FileInLayout(file, lay) ==
    \A i \in 1..Len(file) : (file[i].quote # "") <=> (lay = "cdd")

\* C12: expanding a file keeps its layout: an extended-layout file is
\* rewritten in the extended layout and a simple file in the simple layout,
\* through any number of successive expansions.
C12_LayoutPreserved ==
    [][ (mode = "expand" /\ mode' = "expand") =>
            /\ layout' = layout
            /\ FileInLayout(csv', layout)
      ]_vars

\* a second expansion of an extended-layout file has written the file
C12_Witness ==
    /\ pc = "done"
    /\ mode = "expand"
    /\ layout = "cdd"
    /\ written # <<>>
    /\ calls > Len(requests)
    /\ csv # csv0

\* C13: the volume carried over from an extended-layout file is the
\* base-asset volume column, regardless of the order of the two volume
\* columns in the file.
C13_BaseVolumeCarried ==
    (mode = "expand" /\ pc = "done" /\ layout = "cdd" /\ written # <<>>) =>
        /\ Len(existing_ohlcv) = Len(csv0)
        /\ \A i \in 1..Len(existing_ohlcv) :
               existing_ohlcv[i].vol = csv0[i].base

\* the length of one candle of a timeframe, as the timeframe string reads
TimeframeMs(tf) ==
    tf[1] * (IF tf[2] = "m" THEN MinuteMs
             ELSE IF tf[2] = "d" THEN DayMs ELSE HourMs)

\* the pagination loop works with an end boundary
HasEndBoundary == pc \notin {"main", "raised"}

\* C14 as stated: when no end is supplied, the end boundary of the loop is
\* the current time truncated down to a boundary of the requested timeframe
\* (start of the current hour for '1h', of the current day for '1d', of the
\* current 5-minute slot for '5m').
C14_EndAtTimeframeBoundary ==
    (end_arg = None /\ HasEndBoundary) =>
        /\ end_date = (now \div TimeframeMs(timeframe)) * TimeframeMs(timeframe)
        /\ end_timestamp_ms = timestamp_ms(end_date, tz)

\* C14, amended: when no end is supplied, the end boundary of the loop is the
\* current local time truncated down to the start of the current hour,
\* whatever the timeframe, when __main__ or expand_csv sets it, and one hour
\* before that when fetch_historical_data is called directly without an end.
C14_EndAtStartOfHour ==
    (end_arg = None /\ HasEndBoundary) =>
        /\ end_date = (now \div 3600000) * 3600000
                          - (IF mode = "call" THEN 3600000 ELSE 0)
        /\ end_timestamp_ms = timestamp_ms(end_date, tz)

\* a daily download without an end date, run seven minutes past an hour that
\* is not midnight, has returned candles
C14_Witness ==
    /\ end_arg = None
    /\ timeframe = <<1, "d">>
    /\ mode = "full"
    /\ pc = "returned"
    /\ result # <<>>
    /\ now % HourMs # 0
    /\ end_date % DayMs # 0

\* C15: fetch_all_historical_data of the KAG/USDT script, called without an
\* end date, substitutes a default end boundary and paginates up to it: it
\* returns a DataFrame and does not fail.
C15_KagDefaultEndReturns ==
    (script = "kag" /\ mode = "call" /\ end_arg = None) =>
        /\ pc # "raised"
        /\ error = ""

\* C16: when a timestamp is received more than once within one pagination
\* run, the output keeps the values of the occurrence fetched first.
C16_KeepFirstWithinRun ==
    Returned =>
        \A k \in 1..Len(result) :
            \E j \in 1..Len(all_data) :
                /\ all_data[j].ts = result[k].ts
                /\ all_data[j].v = result[k].v
                /\ \A h \in 1..(j - 1) : all_data[h].ts # result[k].ts

\* two pages of one run overlapped on a timestamp that is in the output
C16_Witness ==
    /\ Returned
    /\ Len(responses) >= 2
    /\ \E i, j \in 1..Len(all_data) :
           /\ i < j
           /\ all_data[i].ts = all_data[j].ts
           /\ all_data[i].v # all_data[j].v
           /\ all_data[i].ts \in TsSet(result)

\* the delay that follows the i-th request of the run
DelayAfter(i) ==
    IF responses[i].kind = "neterr" THEN 5000 ELSE 1200

\* C17: requests are sequential and separated by a delay: between any two
\* consecutive requests of a run there is a sleep, of rateLimit/1000 seconds
\* after a page that continues pagination and of 5 seconds after a network
\* error, and no request is issued while another is outstanding.
C17_SleepBetweenRequests ==
    /\ Len(responses) = Len(requests)
    /\ \A i \in 2..Len(requests) :
           \E k \in 1..Len(sleeps) :
               /\ sleeps[k].after = i - 1
               /\ sleeps[k].ms = DelayAfter(i - 1)
    /\ pc = "request" =>
           (requests # <<>> =>
                \E k \in 1..Len(sleeps) :
                    /\ sleeps[k].after = Len(requests)
                    /\ sleeps[k].ms = DelayAfter(Len(requests)))

\* a request was repeated after a network error
C17_Witness ==
    /\ Len(requests) = 2
    /\ responses[1].kind = "neterr"
    /\ Len(sleeps) = 1
    /\ sleeps[1].ms = RetryDelayMs

C19_EmptyPageStops ==
    \A i \in 1..Len(responses) :
        (responses[i].kind = "page" /\ responses[i].ohlcv = <<>>) =>
            /\ i = Len(requests)
            /\ ~Paginating
            /\ Returned =>
                   /\ TsSet(result) = TsSet(all_data)
                   /\ \A k \in 1..Len(result) :
                          \E j \in 1..Len(all_data) :
                              /\ all_data[j] = result[k]
                              /\ \A h \in 1..(j - 1) :
                                     all_data[h].ts # result[k].ts
                   /\ i = 1 => result = <<>>

\* C20: against an exchange that raises finitely many network errors and
\* whose pages are ascending and start at or after the requested cursor, the
\* pagination loop terminates for every end boundary; a network error never
\* ends the loop, which sleeps and asks again.
C20_Terminates ==
    /\ Paginating ~> (pc = "finalize")
    /\ [](\A i \in 1..Len(responses) :
              (responses[i].kind = "neterr" /\ i = Len(responses)) =>
                  Paginating)

\* the loop has ended after a network error and a page that moved the cursor
C20_Witness ==
    /\ polite
    /\ pc = "finalize"
    /\ Len(requests) >= 3
    /\ \E i \in 1..Len(responses) : responses[i].kind = "neterr"
    /\ \E i \in 1..(Len(responses) - 1) :
           /\ responses[i].kind = "page"
           /\ requests[i + 1].since > requests[i].since
    /\ current_since > requests[1].since

\* C21: expand_csv never removes a timestamp from the dataset: no step of an
\* expansion, whether it ends with a merge, with a partial result after an
\* abort or without new rows, takes a timestamp out of the file, and when the
\* expansion is over the timestamps of the file are those it had before
\* together with those newly fetched.
C21_TimestampsOnlyGrow ==
    /\ [](( pc = "done" /\ mode = "expand") =>
              TsSet(Dataset(csv)) = TsSet(Dataset(csv0)) \cup TsSet(result))
    /\ [][ mode' = "expand" =>
               TsSet(Dataset(csv)) \subseteq TsSet(Dataset(csv')) ]_vars

\* an expansion that was aborted after a page has added a timestamp to the
\* file and kept the old ones
C21_Witness ==
    /\ pc = "done"
    /\ mode = "expand"
    /\ Len(responses) >= 2
    /\ responses[Len(responses)].kind = "err"
    /\ TsSet(result) \ TsSet(Dataset(csv0)) # {}
    /\ TsSet(Dataset(csv0)) # {}
    /\ TsSet(Dataset(csv0)) \subseteq TsSet(Dataset(csv))

\* the timestamps of the file after one expansion of `file` that starts at
\* cursor `since` and is not interrupted
Uninterrupted(file, since) ==
    TsSet(Dataset(file))
        \cup TsSet(BuildFrame(SteadyRun(since, <<>>, SteadyCap), end_date))

\* this run follows a run that was aborted after it had fetched candles, and
\* has itself come to its end without an abort
Resumed ==
    /\ steady
    /\ prev.runs = 1
    /\ prev.aborted
    /\ pc = "done"
    /\ \A i \in 1..Len(responses) : responses[i].kind # "err"

\* C22: after an expansion that was aborted by a non-network exception once
\* it had persisted a partial result, the next expansion resumes at the new
\* maximum timestamp plus one interval, and against a deterministic exchange
\* the file then holds what one uninterrupted expansion would have written:
\* no gap and no duplicate at the point of interruption.
C22_ResumeLikeUninterrupted ==
    Resumed =>
        /\ requests[1].since =
               MaxTs(Dataset(csv0)) + _timeframe_delta_ms(timeframe)
        /\ TsSet(Dataset(csv)) = Uninterrupted(prev.csv, prev.since)
        /\ Cardinality(TsSet(Dataset(csv))) = Len(csv)

\* C23: the two scripts paginate alike: with an explicit end boundary, for
\* every timeframe, start cursor and sequence of answers and errors, the loop
\* of fetch_KAG_USDT_1h.py and the loop of fetch_historical_data.py hold the
\* same cursor at every step, so they issue the same requests, and they
\* return the same result.
C23_SamePagination ==
    end_arg # None =>
        /\ twin_since = current_since
        /\ \A i \in 1..Len(requests) :
               i < Len(requests) /\ responses[i].kind = "page" =>
                   /\ requests[i + 1].since =
                          LastTs(i) + _timeframe_delta_ms(timeframe)
                   /\ requests[i + 1].since =
                          InlineNextSince(LastTs(i), timeframe)
        /\ Returned => result = BuildFrame(all_data, end_date)

\* the KAG script's function, called for a minute timeframe with an end
\* date, has moved its cursor and returned candles
C23_Witness ==
    /\ script = "kag"
    /\ mode = "call"
    /\ end_arg # None
    /\ timeframe = <<5, "m">>
    /\ pc = "returned"
    /\ result # <<>>
    /\ Len(requests) >= 2
    /\ responses[1].kind = "page"
    /\ requests[2].since = LastTs(1) + 5 * MinuteMs

====
